---- MODULE Spec2Model ----
(***************************************************************************)
(* Model of src/plugins/utils/dashboard-workspaces-ingested.js: the        *)
(* dashboard's ingestion of the workspace TSV exports.                     *)
(*                                                                         *)
(* Text is a sequence of one-character strings, so that split, replace,    *)
(* toUpperCase and Number are computed character by character as the       *)
(* JavaScript does.  A JavaScript value is a record of one shape, tagged   *)
(* by t: "str" (s), "num" (n), "nan", "arr" (a), "undefined", "absent" (a  *)
(* property an object does not have) and "throw" (a TypeError raised while *)
(* the value was computed).                                                *)
(***************************************************************************)
EXTENDS Integers, Sequences, FiniteSets, TLC

\* ------------------------------------------------------------------ bounds
\* Most content rows of the main export.
MaxRows == 2
\* Most content rows of a lookup export.
MaxLookupRows == 2

\* ------------------------------------------------------------ JS values
Val(t, s, n, a) == [t |-> t, s |-> s, n |-> n, a |-> a]
Str(s) == Val("str", s, 0, <<>>)
Num(n) == Val("num", <<>>, n, <<>>)
Arr(a) == Val("arr", <<>>, 0, a)
NaN == Val("nan", <<>>, 0, <<>>)
Undefined == Val("undefined", <<>>, 0, <<>>)
Absent == Val("absent", <<>>, 0, <<>>)
Throw == Val("throw", <<>>, 0, <<>>)

\* Reading a property: one the object does not have reads as undefined.
Get(obj, key) == IF obj[key] = Absent THEN Undefined ELSE obj[key]

\* JavaScript truthiness, as `||` tests it.
Falsy(v) ==
    \/ v.t \in {"undefined", "absent", "nan"}
    \/ v.t = "num" /\ v.n = 0
    \/ v.t = "str" /\ v.s = <<>>

\* a || b
JsOr(a, b) == IF Falsy(a) THEN b ELSE a

\* ------------------------------------------------------- String methods
TAB == <<"\t">>
CRLF == <<"\r", "\n">>
COMMA == <<",">>
UNDERSCORE == <<"_">>

MinOf(S) == CHOOSE x \in S : \A y \in S : x <= y

\* String.prototype.indexOf, 1-based; 0 when sep does not occur.
IndexOf(s, sep) ==
    LET I == {i \in 1..(Len(s) - Len(sep) + 1) : SubSeq(s, i, i + Len(sep) - 1) = sep}
    IN  IF I = {} THEN 0 ELSE MinOf(I)

\* String.prototype.split(sep): "".split(sep) is [""].
RECURSIVE Split(_, _)
Split(s, sep) ==
    LET i == IndexOf(s, sep)
    IN  IF i = 0
        THEN <<s>>
        ELSE <<SubSeq(s, 1, i - 1)>> \o Split(SubSeq(s, i + Len(sep), Len(s)), sep)

\* value.replace(/,/g, "")
StripCommas(s) == SelectSeq(s, LAMBDA c : c # ",")

LowerCase == <<"a", "b", "c", "d", "e", "f", "g", "h", "i", "j", "k", "l", "m",
               "n", "o", "p", "q", "r", "s", "t", "u", "v", "w", "x", "y", "z">>
UpperCase == <<"A", "B", "C", "D", "E", "F", "G", "H", "I", "J", "K", "L", "M",
               "N", "O", "P", "Q", "R", "S", "T", "U", "V", "W", "X", "Y", "Z">>

UpperChar(c) ==
    IF \E i \in 1..Len(LowerCase) : LowerCase[i] = c
    THEN UpperCase[CHOOSE i \in 1..Len(LowerCase) : LowerCase[i] = c]
    ELSE c

\* String.prototype.toUpperCase
ToUpperCase(s) == [i \in 1..Len(s) |-> UpperChar(s[i])]

Digits == <<"0", "1", "2", "3", "4", "5", "6", "7", "8", "9">>
IsDigit(c) == \E i \in 1..Len(Digits) : Digits[i] = c
DigitValue(c) == (CHOOSE i \in 1..Len(Digits) : Digits[i] = c) - 1

RECURSIVE DecimalValue(_)
DecimalValue(s) ==
    IF s = <<>> THEN 0
    ELSE 10 * DecimalValue(SubSeq(s, 1, Len(s) - 1)) + DigitValue(s[Len(s)])

\* Number(string), for the texts of the exports: the empty string is 0, an
\* optionally signed run of decimal digits is that integer and any other text
\* (letters, a lone sign, an underscore) is NaN.
ToNumber(s) ==
    LET signed == s # <<>> /\ s[1] \in {"-", "+"}
        body == IF signed THEN Tail(s) ELSE s
    IN  IF s = <<>> THEN Num(0)
        ELSE IF body = <<>> \/ \E i \in 1..Len(body) : ~IsDigit(body[i]) THEN NaN
        ELSE IF s[1] = "-" THEN Num(0 - DecimalValue(body))
        ELSE Num(DecimalValue(body))

\* ------------------------------------------------------ Template variables
fileAnVILDataIngestion == "anvil-data-ingestion-attributes.tsv"
fileAnVILDataIngestionAccession == "anvil-data-ingestion-attributes-accession.tsv"
fileTerraDataIngestionCounts == "terra-data-ingestion-attributes-counts.tsv"
fileTerraDataIngestionFileSize == "terra-data-ingestion-attributes-file-size.tsv"

FileNames == {fileAnVILDataIngestion, fileAnVILDataIngestionAccession,
              fileTerraDataIngestionCounts, fileTerraDataIngestionFileSize}

ALLOW_LIST_WORKSPACE_FIELD_ARRAY == {"consentShortNames", "dataTypes", "diseases"}
ALLOW_LIST_WORKSPACE_FIELD_NUMBER == {"size", "samples", "subjects"}
ALLOW_LIST_WORKSPACE_ACCESS_PUBLIC ==
    {<<"1", "0", "0", "0", "G", "-", "h", "i", "g", "h", "-", "c", "o", "v", "e", "r",
       "a", "g", "e", "-", "2", "0", "1", "9">>}

\* The display value of an upper-cased consortium code; undefined when the
\* table has no such code.
WORKSPACE_CONSORTIUM_DISPLAY_VALUE(code) ==
    CASE code = <<"C", "C", "D", "G">> -> Str(<<"C", "C", "D", "G">>)
      [] code = <<"C", "M", "G">> -> Str(<<"C", "M", "G">>)
      [] code = <<"E", "M", "E", "R", "G", "E">> -> Str(<<"e", "M", "E", "R", "G", "E">>)
      [] code = <<"G", "T", "E", "X">> -> Str(<<"G", "T", "E", "x", " ", "(", "v", "8", ")">>)
      [] code = <<"N", "H", "G", "R", "I">> -> Str(<<"N", "H", "G", "R", "I">>)
      [] code = <<"P", "A", "G", "E">> -> Str(<<"P", "A", "G", "E">>)
      [] code = <<"T", "H", "O", "U", "S", "A", "N", "D", "G", "E", "N", "O", "M", "E", "S">>
            -> Str(<<"1", "0", "0", "0", " ", "G", "e", "n", "o", "m", "e", "s">>)
      [] OTHER -> Undefined

\* The header text the exports use for each ingestion column.
INGESTION_HEADERS_TO_WORKSPACE_KEY ==
    [CONSENT_SHORT_NAMES |-> <<"l", "i", "b", "r", "a", "r", "y", ":", "d", "a", "t", "a",
                               "U", "s", "e", "R", "e", "s", "t", "r", "i", "c", "t", "i",
                               "o", "n">>,
     DATA_TYPES |-> <<"l", "i", "b", "r", "a", "r", "y", ":", "d", "a", "t", "a", "t", "y",
                      "p", "e", ".", "i", "t", "e", "m", "s">>,
     DB_GAP_ID |-> <<"s", "t", "u", "d", "y", "_", "a", "c", "c", "e", "s", "s", "i", "o", "n">>,
     DISEASES |-> <<"l", "i", "b", "r", "a", "r", "y", ":", "i", "n", "d", "i", "c", "a", "t",
                    "i", "o", "n">>,
     PROJECT_ID |-> <<"n", "a", "m", "e">>,
     LIBRARY_PROJECT_NAME |-> <<"l", "i", "b", "r", "a", "r", "y", ":", "p", "r", "o", "j",
                                "e", "c", "t", "N", "a", "m", "e">>,
     SAMPLES |-> <<"S", "a", "m", "p", "l", "e", " ", "C", "o", "u", "n", "t">>,
     SIZE |-> <<"F", "i", "l", "e", " ", "S", "i", "z", "e">>,
     SUBJECTS |-> <<"l", "i", "b", "r", "a", "r", "y", ":", "n", "u", "m", "S", "u", "b", "j",
                    "e", "c", "t", "s">>,
     WORKSPACE |-> <<"W", "o", "r", "k", "s", "p", "a", "c", "e">>]

\* The names of the fields of a workspace.
WorkspaceKeys == {"access", "consentShortNames", "consortium", "dataTypes", "dbGapId",
                  "dbGapIdAccession", "diseases", "projectId", "samples", "size", "subjects"}

\* No workspace key: HEADERS_TO_WORKSPACE_KEY[header] is undefined.
NoKey == "undefined"

\* The workspace key of a header (a JS value: the text of a column header, or
\* undefined where the row has more fields than the header row).
HEADERS_TO_WORKSPACE_KEY(header) ==
    LET I == INGESTION_HEADERS_TO_WORKSPACE_KEY
        h == header.s
    IN  IF header.t # "str" THEN NoKey
        ELSE CASE h = <<"A", "C", "C", "E", "S", "S">> -> "access"
               [] h = I.CONSENT_SHORT_NAMES -> "consentShortNames"
               [] h = <<"C", "O", "N", "S", "O", "R", "T", "I", "U", "M">> -> "consortium"
               [] h = I.DATA_TYPES -> "dataTypes"
               [] h = I.DB_GAP_ID -> "dbGapId"
               [] h = <<"D", "B", "_", "G", "A", "P", "_", "I", "D", "_", "A", "C", "C", "E",
                        "S", "S", "I", "O", "N">> -> "dbGapIdAccession"
               [] h = I.DISEASES -> "diseases"
               [] h = I.PROJECT_ID -> "projectId"
               [] h = I.SAMPLES -> "samples"
               [] h = I.SIZE -> "size"
               [] h = I.SUBJECTS -> "subjects"
               [] h = I.WORKSPACE -> "projectId"
               [] OTHER -> NoKey

\* --------------------------------------------------------- Field coercion
\* formatIngestedDatum: the display value of a consortium, any other datum as
\* it is.  toUpperCase of a datum that is no string throws.
formatIngestedDatum(datum, key) ==
    IF key = "consortium"
    THEN IF datum.t # "str" THEN Throw
         ELSE JsOr(WORKSPACE_CONSORTIUM_DISPLAY_VALUE(ToUpperCase(datum.s)),
                   Str(ToUpperCase(datum.s)))
    ELSE datum

\* buildIngestedDatum: the datum corrected for type.
buildIngestedDatum(datum, key) ==
    LET value == formatIngestedDatum(datum, key)
    IN  IF key \in ALLOW_LIST_WORKSPACE_FIELD_ARRAY
        THEN IF value.t # "str" THEN Throw ELSE Arr(Split(value.s, COMMA))
        ELSE IF key \in ALLOW_LIST_WORKSPACE_FIELD_NUMBER
        THEN IF value.t # "str" THEN Throw ELSE ToNumber(StripCommas(value.s))
        ELSE value

\* A pair whose value is the datum as read, not corrected for type.
getIngestedDatumKeyValuePairRaw(datum, header) ==
    [key |-> HEADERS_TO_WORKSPACE_KEY(header), value |-> datum]

\* getIngestedDatumKeyValuePair: [key, value].
getIngestedDatumKeyValuePair(datum, header) ==
    LET key == HEADERS_TO_WORKSPACE_KEY(header)
    IN  [key |-> key, value |-> buildIngestedDatum(datum, key)]

\* isHeaderKeyOrValue
isHeaderKeyOrValue(header, keyPair, valuePair) ==
    LET keyExists == header = Str(INGESTION_HEADERS_TO_WORKSPACE_KEY[keyPair])
        valueExists == header = Str(INGESTION_HEADERS_TO_WORKSPACE_KEY[valuePair])
    IN  keyExists \/ valueExists

\* headers[i]
HeaderAt(headers, i) == IF i <= Len(headers) THEN Str(headers[i]) ELSE Undefined

\* {}
EmptyObject == [k \in WorkspaceKeys |-> Absent]

\* Object.assign(target, source)
ObjectAssign(target, source) ==
    [k \in WorkspaceKeys |-> IF source[k] # Absent THEN source[k] ELSE target[k]]

\* buildIngestedHeaders: the first row, split on tabs; [""] of no rows.
buildIngestedHeaders(contentRows) ==
    Split(IF contentRows = <<>> THEN <<>> ELSE contentRows[1], TAB)


\* ---------------------------------------------------------- Lookup builder
\* new Map()
EmptyMap == [k \in {} |-> Undefined]

\* A set that keeps the value a key already has.
MapSetKeepsFirst(m, k, v) == [x \in (DOMAIN m) \cup {k} |-> IF x \in DOMAIN m THEN m[x] ELSE v]

\* Map.prototype.set
MapSet(m, k, v) == [x \in (DOMAIN m) \cup {k} |-> IF x = k THEN v ELSE m[x]]

\* Map.prototype.get
MapGet(m, k) == IF k \in DOMAIN m THEN m[k] ELSE Undefined

\* The inner reduce of buildKeyValuePair over the first n fields of a row: the
\* columns under the key header and under the value header, by workspace key.
RECURSIVE KeyValueRow(_, _, _, _, _)
KeyValueRow(fields, headers, keyPair, valuePair, n) ==
    IF n = 0 THEN EmptyObject
    ELSE LET acc == KeyValueRow(fields, headers, keyPair, valuePair, n - 1)
             header == HeaderAt(headers, n)
             kv == getIngestedDatumKeyValuePair(Str(fields[n]), header)
         IN  IF isHeaderKeyOrValue(header, keyPair, valuePair)
             THEN [acc EXCEPT ![kv.key] = kv.value]
             ELSE acc

\* The outer reduce of buildKeyValuePair over the first n of the given rows.
RECURSIVE KeyValueReduce(_, _, _, _, _)
KeyValueReduce(rows, headers, keyPair, valuePair, n) ==
    IF n = 0 THEN EmptyMap
    ELSE LET acc == KeyValueReduce(rows, headers, keyPair, valuePair, n - 1)
             fields == Split(rows[n], TAB)
             row == KeyValueRow(fields, headers, keyPair, valuePair, Len(fields))
             keyKeyPair == HEADERS_TO_WORKSPACE_KEY(Str(INGESTION_HEADERS_TO_WORKSPACE_KEY[keyPair]))
             keyValuePair == HEADERS_TO_WORKSPACE_KEY(Str(INGESTION_HEADERS_TO_WORKSPACE_KEY[valuePair]))
         IN  MapSet(acc, Get(row, keyKeyPair), Get(row, keyValuePair))

\* buildKeyValuePair: the map of the value column by the key column, over the
\* rows after the header row.
buildKeyValuePair(contentRows, headers, keyPair, valuePair) ==
    LET rows == Tail(contentRows)
    IN  IF contentRows = <<>> THEN EmptyMap
        ELSE KeyValueReduce(rows, headers, keyPair, valuePair, Len(rows))

\* ---------------------------------------------------------- Row transformer
\* The reduce of buildWorkspaceRow over the first n fields of a content row:
\* every column whose header has a workspace key, corrected for type.
RECURSIVE IngestedRow(_, _, _)
IngestedRow(fields, headers, n) ==
    IF n = 0 THEN EmptyObject
    ELSE LET acc == IngestedRow(fields, headers, n - 1)
             kv == getIngestedDatumKeyValuePair(Str(fields[n]), HeaderAt(headers, n))
         IN  IF kv.key # NoKey THEN [acc EXCEPT ![kv.key] = kv.value] ELSE acc

\* The first segment of the project id in place of the second.
ConsortiumOfFirstSegment(projectId) ==
    IF projectId.t # "str" THEN Throw ELSE Str(Split(projectId.s, UNDERSCORE)[1])

\* projectId.split("_")[1], undefined of a one-segment id; a TypeError when
\* projectId is no string.
ConsortiumOf(projectId) ==
    IF projectId.t # "str" THEN Throw
    ELSE LET segments == Split(projectId.s, UNDERSCORE)
         IN  IF Len(segments) >= 2 THEN Str(segments[2]) ELSE Undefined

\* buildWorkspaceRow up to its await: the ingested row, the derived values
\* and the study id handed to getStudyGapAccession; threw when a TypeError
\* ended the transform before the call.
buildWorkspaceRowStart(contentRow, headers, sampleCounts, studyIds, fileSizes) ==
    LET fields == Split(contentRow, TAB)
        row == IngestedRow(fields, headers, Len(fields))
        projectId == Get(row, "projectId")
        access == IF projectId.t = "str" /\ projectId.s \in ALLOW_LIST_WORKSPACE_ACCESS_PUBLIC
                  THEN Str(<<"P", "u", "b", "l", "i", "c">>)
                  ELSE Str(<<"P", "r", "i", "v", "a", "t", "e">>)
        consortium == ConsortiumOf(projectId)
        consortiumDisplayValue ==
            IF consortium = Throw THEN Throw ELSE buildIngestedDatum(consortium, "consortium")
    IN  [threw |-> consortiumDisplayValue = Throw,
         row |-> row,
         access |-> access,
         consortium |-> consortiumDisplayValue,
         samplesCount |-> JsOr(MapGet(sampleCounts, projectId), Num(0)),
         size |-> JsOr(MapGet(fileSizes, projectId), Num(0)),
         studyId |-> MapGet(studyIds, projectId)]

\* The ingested row assigned over the additional properties.
buildWorkspaceRowEndRowWins(locals, studyAccession) ==
    LET workspace == [EmptyObject EXCEPT
                        !["access"] = locals.access,
                        !["consortium"] = locals.consortium,
                        !["samples"] = locals.samplesCount,
                        !["size"] = locals.size,
                        !["dbGapIdAccession"] = studyAccession,
                        !["dbGapId"] = locals.studyId]
    IN  ObjectAssign(workspace, locals.row)

\* buildWorkspaceRow after its await: the additional properties, assigned
\* over the ingested row.
buildWorkspaceRowEnd(locals, studyAccession) ==
    LET workspace == [EmptyObject EXCEPT
                        !["access"] = locals.access,
                        !["consortium"] = locals.consortium,
                        !["samples"] = locals.samplesCount,
                        !["size"] = locals.size,
                        !["dbGapIdAccession"] = studyAccession,
                        !["dbGapId"] = locals.studyId]
    IN  ObjectAssign(locals.row, workspace)


\* ------------------------------------------------------------ File access
\* getFileContents: the rows of the file, split on CRLF; no rows of a file
\* that does not exist.
getFileContents(files, fileName) ==
    IF files[fileName].exists THEN Split(files[fileName].content, CRLF) ELSE <<>>

\* A getFileContents that says nothing of a missing file.
consoleLogSilent(files, console, fileName) == console

\* The console after getFileContents: a line naming the file that is missing.
consoleLog(files, console, fileName) ==
    IF files[fileName].exists THEN console ELSE Append(console, fileName)

\* getIngestedData: [headers, contentRows].
getIngestedData(files, fileName) ==
    LET contentRows == getFileContents(files, fileName)
    IN  [headers |-> buildIngestedHeaders(contentRows), contentRows |-> contentRows]

\* ------------------------------------------------------------- The inputs
RECURSIVE Join(_, _)
Join(parts, sep) ==
    IF parts = <<>> THEN <<>>
    ELSE IF Len(parts) = 1 THEN parts[1]
    ELSE parts[1] \o sep \o Join(Tail(parts), sep)

SeqsUpTo(S, n) == UNION {[1..k -> S] : k \in 0..n}

File(header, rows) == [exists |-> TRUE, content |-> Join(<<header>> \o rows, CRLF)]
NoFile == [exists |-> FALSE, content |-> <<>>]

IdA == <<"A", "_", "c", "c", "d", "g", "_", "1">>
IdB == <<"B", "_", "g", "t", "e", "x">>
IdPublic == <<"1", "0", "0", "0", "G", "-", "h", "i", "g", "h", "-", "c", "o", "v", "e", "r",
              "a", "g", "e", "-", "2", "0", "1", "9">>
Phs == <<"p", "h", "s">>

\* Header rows of the main export: the project id first, with a subject and a
\* sample count; or last, after a column of no workspace key and a data types
\* column; or twice, as the workspace and as the name.
MainHeaders ==
    LET I == INGESTION_HEADERS_TO_WORKSPACE_KEY
    IN  {Join(<<I.PROJECT_ID, I.SUBJECTS, I.SAMPLES>>, TAB),
         Join(<<I.LIBRARY_PROJECT_NAME, I.DATA_TYPES, I.PROJECT_ID>>, TAB),
         Join(<<I.WORKSPACE, I.SIZE, I.PROJECT_ID>>, TAB)}

\* Content rows of the main export, the empty line after a last CRLF among them.
MainRows ==
    {Join(<<IdA, <<"1", ",", "2">>, IdB>>, TAB),
     Join(<<IdPublic, <<"-", "5">>, IdA>>, TAB),
     Join(<<IdB, <<"-", "5">>, <<"7">>>>, TAB),
     <<>>}

MainFiles == {NoFile} \cup {File(h, rows) : h \in MainHeaders, rows \in SeqsUpTo(MainRows, MaxRows)}

StudyHeader == Join(<<INGESTION_HEADERS_TO_WORKSPACE_KEY.PROJECT_ID,
                      INGESTION_HEADERS_TO_WORKSPACE_KEY.DB_GAP_ID>>, TAB)
CountsHeader == Join(<<INGESTION_HEADERS_TO_WORKSPACE_KEY.WORKSPACE,
                       INGESTION_HEADERS_TO_WORKSPACE_KEY.SAMPLES>>, TAB)
FileSizeHeader == Join(<<INGESTION_HEADERS_TO_WORKSPACE_KEY.WORKSPACE,
                         INGESTION_HEADERS_TO_WORKSPACE_KEY.SIZE>>, TAB)

StudyRows == {Join(<<IdA, Phs>>, TAB), Join(<<IdA, <<"q">>>>, TAB)}
CountsRows == {Join(<<IdA, <<"5">>>>, TAB), Join(<<IdA, <<"-", "3">>>>, TAB),
               Join(<<IdB, <<"1", ",", "2">>>>, TAB)}
FileSizeRows == {Join(<<IdA, <<"9">>>>, TAB), Join(<<IdB, <<"x">>>>, TAB)}

\* The lookup exports at large: any rows, in any order, with repeated keys.
StudyFiles == {NoFile} \cup {File(StudyHeader, rows) : rows \in SeqsUpTo(StudyRows, MaxLookupRows)}
CountsFiles == {NoFile} \cup {File(CountsHeader, rows) : rows \in SeqsUpTo(CountsRows, MaxLookupRows)}
FileSizeFiles == {NoFile} \cup {File(FileSizeHeader, rows) : rows \in SeqsUpTo(FileSizeRows, MaxLookupRows)}

\* A few lookup exports to go with the main exports at large.
FewStudyFiles == {NoFile, File(StudyHeader, <<Join(<<IdA, Phs>>, TAB)>>)}
FewCountsFiles == {NoFile, File(CountsHeader, <<Join(<<IdA, <<"-", "3">>>>, TAB), <<>>>>)}
FewFileSizeFiles == {NoFile, File(FileSizeHeader, <<Join(<<IdA, <<"1", ",", "2">>>>, TAB)>>)}

\* What getStudyGapAccession resolves to.
Accessions == {Undefined, Str(<<"p", "h", "s", "1">>)}

\* ------------------------------------------------------------------ state
VARIABLES
    fs,                       \* the four exports on disk
    pc,                       \* where getIngestedWorkspaces stands
    console,                  \* the files console.log named as missing
    studyIdByProjectId,       \* the three lookups, once built
    sampleCountByProjectId,
    fileSizeByProjectId,
    built,                    \* the lookups built so far, in order
    promises,                 \* one buildWorkspaceRow promise per content row
    settled,                  \* the rows whose resolver call completed, in order
    workspaces,               \* what buildWorkspaces resolved to
    sortCalls,                \* calls of sortDataByDuoTypes
    result                    \* what getIngestedWorkspaces resolved to

vars == <<fs, pc, console, studyIdByProjectId, sampleCountByProjectId, fileSizeByProjectId,
          built, promises, settled, workspaces, sortCalls, result>>

Disk(main, study, counts, fileSize) ==
    [f \in FileNames |->
        CASE f = fileAnVILDataIngestion -> main
          [] f = fileAnVILDataIngestionAccession -> study
          [] f = fileTerraDataIngestionCounts -> counts
          [] f = fileTerraDataIngestionFileSize -> fileSize]

\* A main export of no content rows, or none.
EmptyMainFiles == {NoFile} \cup {File(h, <<>>) : h \in MainHeaders}

\* The exports on disk: a main export at large with a few lookup exports, or
\* one lookup export at large with a few of the other two and a main export
\* of no content rows.
Disks ==
    {Disk(m, s, c, f) : m \in MainFiles, s \in FewStudyFiles, c \in FewCountsFiles,
                        f \in FewFileSizeFiles}
    \cup
    {Disk(m, s, c, f) : m \in EmptyMainFiles, s \in StudyFiles, c \in FewCountsFiles,
                        f \in FewFileSizeFiles}
    \cup
    {Disk(m, s, c, f) : m \in EmptyMainFiles, s \in FewStudyFiles, c \in CountsFiles,
                        f \in FewFileSizeFiles}
    \cup
    {Disk(m, s, c, f) : m \in EmptyMainFiles, s \in FewStudyFiles, c \in FewCountsFiles,
                        f \in FileSizeFiles}

Init ==
    /\ fs \in Disks
    /\ pc = "getStudyIdByProjectId"
    /\ console = <<>>
    /\ studyIdByProjectId = EmptyMap
    /\ sampleCountByProjectId = EmptyMap
    /\ fileSizeByProjectId = EmptyMap
    /\ built = <<>>
    /\ promises = <<>>
    /\ settled = <<>>
    /\ workspaces = <<>>
    /\ sortCalls = 0
    /\ result = <<>>


\* ------------------------------------------------------------- Promise.all
\* The promise of one buildWorkspaceRow call: rejected at once when the
\* transform threw, else pending on getStudyGapAccession.
RowPromise(locals) ==
    [status |-> IF locals.threw THEN "threw" ELSE "pending",
     locals |-> locals,
     studyAccession |-> Undefined,
     value |-> EmptyObject]

\* buildWorkspaces: buildWorkspaceRow mapped over the rows after the header row.
buildWorkspaces(contentRows, headers, sampleCounts, studyIds, fileSizes) ==
    LET rows == IF contentRows = <<>> THEN <<>> ELSE Tail(contentRows)
    IN  [i \in 1..Len(rows) |->
            RowPromise(buildWorkspaceRowStart(rows[i], headers, sampleCounts, studyIds,
                                              fileSizes))]

Rejected(p) == p.status \in {"threw", "rejected"}

\* Promise.any: fulfilled once some promise is.
PromiseAnyFulfilled(ps) == ps = <<>> \/ \E i \in 1..Len(ps) : ps[i].status = "fulfilled"

\* Promise.all fulfils once every promise has,
PromiseAllFulfilled(ps) == \A i \in 1..Len(ps) : ps[i].status = "fulfilled"

\* Promise.allSettled: never rejected.
PromiseAllSettledRejected(ps) == FALSE

\* rejects once any promise has,
PromiseAllRejected(ps) == \E i \in 1..Len(ps) : Rejected(ps[i])

\* The values in the order the promises settled in.
PromiseAllValuesAsSettled(ps, order) ==
    [i \in 1..Len(ps) |-> IF i <= Len(order) THEN ps[order[i]].value ELSE ps[i].value]

\* and fulfils to the values in the order of the promises.
PromiseAllValues(ps, order) == [i \in 1..Len(ps) |-> ps[i].value]

\* sortDataByDuoTypes(data, groupKey, sortKey): the orders the sort may hand
\* the records back in.
sortDataByDuoTypes(data, groupKey, sortKey) ==
    {[i \in 1..Len(data) |-> data[f[i]]] :
        f \in {g \in [1..Len(data) -> 1..Len(data)] :
                  \A i, j \in 1..Len(data) : g[i] = g[j] => i = j}}

\* ---------------------------------------------------------------- actions
lookups == <<studyIdByProjectId, sampleCountByProjectId, fileSizeByProjectId>>
rowState == <<promises, settled>>
outcome == <<workspaces, sortCalls, result>>

\* getStudyIdByProjectId (line 69)
GetStudyIdByProjectId ==
    /\ pc = "getStudyIdByProjectId"
    /\ LET data == getIngestedData(fs, fileAnVILDataIngestionAccession)
       IN  studyIdByProjectId' =
               buildKeyValuePair(data.contentRows, data.headers, "PROJECT_ID", "DB_GAP_ID")
    /\ console' = consoleLog(fs, console, fileAnVILDataIngestionAccession)
    /\ built' = Append(built, "studyIdByProjectId")
    /\ pc' = "getSampleCountByProjectId"
    /\ UNCHANGED <<fs, sampleCountByProjectId, fileSizeByProjectId, rowState, outcome>>

\* getSampleCountByProjectId (line 72)
GetSampleCountByProjectId ==
    /\ pc = "getSampleCountByProjectId"
    /\ LET data == getIngestedData(fs, fileTerraDataIngestionCounts)
       IN  sampleCountByProjectId' =
               buildKeyValuePair(data.contentRows, data.headers, "WORKSPACE", "SAMPLES")
    /\ console' = consoleLog(fs, console, fileTerraDataIngestionCounts)
    /\ built' = Append(built, "sampleCountByProjectId")
    /\ pc' = "getFileSizeByProjectId"
    /\ UNCHANGED <<fs, studyIdByProjectId, fileSizeByProjectId, rowState, outcome>>

\* getFileSizeByProjectId (line 75)
GetFileSizeByProjectId ==
    /\ pc = "getFileSizeByProjectId"
    /\ LET data == getIngestedData(fs, fileTerraDataIngestionFileSize)
       IN  fileSizeByProjectId' =
               buildKeyValuePair(data.contentRows, data.headers, "WORKSPACE", "SIZE")
    /\ console' = consoleLog(fs, console, fileTerraDataIngestionFileSize)
    /\ built' = Append(built, "fileSizeByProjectId")
    /\ pc' = "getWorkspaces"
    /\ UNCHANGED <<fs, studyIdByProjectId, sampleCountByProjectId, rowState, outcome>>

\* getWorkspaces (line 78): reads the main export and starts every row's
\* transform, each up to its getStudyGapAccession call.
GetWorkspaces ==
    /\ pc = "getWorkspaces"
    /\ LET data == getIngestedData(fs, fileAnVILDataIngestion)
       IN  promises' = buildWorkspaces(data.contentRows, data.headers, sampleCountByProjectId,
                                       studyIdByProjectId, fileSizeByProjectId)
    /\ console' = consoleLog(fs, console, fileAnVILDataIngestion)
    /\ pc' = "buildWorkspaces"
    /\ UNCHANGED <<fs, lookups, built, settled, outcome>>

\* getStudyGapAccession resolves for row i: the row's transform runs to its end.
AccessionResolved(i) ==
    /\ i \in 1..Len(promises)
    /\ promises[i].status = "pending"
    /\ \E studyAccession \in Accessions :
          promises' = [promises EXCEPT
                          ![i].status = "fulfilled",
                          ![i].studyAccession = studyAccession,
                          ![i].value = buildWorkspaceRowEnd(promises[i].locals, studyAccession)]
    /\ settled' = Append(settled, i)
    /\ UNCHANGED <<fs, pc, console, lookups, built, outcome>>

\* getStudyGapAccession rejects for row i.
AccessionRejected(i) ==
    /\ i \in 1..Len(promises)
    /\ promises[i].status = "pending"
    /\ promises' = [promises EXCEPT ![i].status = "rejected"]
    /\ settled' = Append(settled, i)
    /\ UNCHANGED <<fs, pc, console, lookups, built, outcome>>

\* getStudyGapAccession for row i is one that never completes.
AccessionNeverCompletes(i) ==
    /\ i \in 1..Len(promises)
    /\ promises[i].status = "pending"
    /\ promises' = [promises EXCEPT ![i].status = "hung"]
    /\ UNCHANGED <<fs, pc, console, lookups, built, settled, outcome>>

\* Promise.all of buildWorkspaces fulfils (line 237).
BuildWorkspacesFulfilled ==
    /\ pc = "buildWorkspaces"
    /\ PromiseAllFulfilled(promises)
    /\ workspaces' = PromiseAllValues(promises, settled)
    /\ pc' = "sortDataByDuoTypes"
    /\ UNCHANGED <<fs, console, lookups, built, rowState, sortCalls, result>>

\* Promise.all of buildWorkspaces rejects: so does getIngestedWorkspaces.
BuildWorkspacesRejected ==
    /\ pc = "buildWorkspaces"
    /\ PromiseAllRejected(promises)
    /\ pc' = "rejected"
    /\ UNCHANGED <<fs, console, lookups, built, rowState, outcome>>

\* return sortDataByDuoTypes(...) (line 81)
SortDataByDuoTypes ==
    /\ pc = "sortDataByDuoTypes"
    /\ result' \in sortDataByDuoTypes(workspaces, "consortium", "projectId")
    /\ sortCalls' = sortCalls + 1
    /\ pc' = "resolved"
    /\ UNCHANGED <<fs, console, lookups, built, rowState, workspaces>>

Next ==
    \/ GetStudyIdByProjectId
    \/ GetSampleCountByProjectId
    \/ GetFileSizeByProjectId
    \/ GetWorkspaces
    \/ \E i \in 1..MaxRows : AccessionResolved(i)
    \/ \E i \in 1..MaxRows : AccessionRejected(i)
    \/ \E i \in 1..MaxRows : AccessionNeverCompletes(i)
    \/ BuildWorkspacesFulfilled
    \/ BuildWorkspacesRejected
    \/ SortDataByDuoTypes

Spec == Init /\ [][Next]_vars

\* The exports of the runs checked for completion: a main export of rows
\* whose transform calls the resolver, throws (the empty line) or does either
\* by the header row, with a study id export or none.
FairDisks ==
    {Disk(m, s, NoFile, NoFile) :
        m \in {NoFile} \cup
              {File(h, rows) :
                  h \in {Join(<<INGESTION_HEADERS_TO_WORKSPACE_KEY.PROJECT_ID,
                                INGESTION_HEADERS_TO_WORKSPACE_KEY.SUBJECTS,
                                INGESTION_HEADERS_TO_WORKSPACE_KEY.SAMPLES>>, TAB)},
                  rows \in SeqsUpTo({Join(<<IdA, <<"1", ",", "2">>, IdB>>, TAB),
                                     Join(<<IdB, <<"-", "5">>, <<"7">>>>, TAB), <<>>},
                                    MaxRows)},
        s \in FewStudyFiles}

FairInit ==
    /\ fs \in FairDisks
    /\ pc = "getStudyIdByProjectId"
    /\ console = <<>>
    /\ studyIdByProjectId = EmptyMap
    /\ sampleCountByProjectId = EmptyMap
    /\ fileSizeByProjectId = EmptyMap
    /\ built = <<>>
    /\ promises = <<>>
    /\ settled = <<>>
    /\ workspaces = <<>>
    /\ sortCalls = 0
    /\ result = <<>>

\* The steps of getIngestedWorkspaces up to its await of Promise.all: none
\* of them waits on anything, and each can be taken exactly while pc names it.
SynchronousSteps == {"getStudyIdByProjectId", "getSampleCountByProjectId",
                     "getFileSizeByProjectId", "getWorkspaces"}

\* Every step of the program that can be taken is taken, and every call of
\* getStudyGapAccession comes to one of its three ends.  The fairness of the
\* synchronous steps is stated by pc, which is what enables them: weak
\* fairness of a step enabled exactly while pc = p is []<>(pc # p).
FairSpec ==
    /\ FairInit /\ [][Next]_vars
    /\ \A p \in SynchronousSteps : []<>(pc # p)
    /\ WF_vars(BuildWorkspacesFulfilled)
    /\ WF_vars(BuildWorkspacesRejected)
    /\ WF_vars(SortDataByDuoTypes)
    /\ \A i \in 1..MaxRows :
          WF_vars(AccessionResolved(i) \/ AccessionRejected(i) \/ AccessionNeverCompletes(i))

\* ------------------------------------------------------------ the claims
\* The content rows of an export on disk, and its header row.
ContentRowsOf(fileName) ==
    LET contentRows == getFileContents(fs, fileName)
    IN  IF contentRows = <<>> THEN <<>> ELSE Tail(contentRows)
HeadersOf(fileName) == buildIngestedHeaders(getFileContents(fs, fileName))

MainExportRead == pc \notin {"getStudyIdByProjectId", "getSampleCountByProjectId",
                             "getFileSizeByProjectId", "getWorkspaces"}
Fulfilled == {i \in 1..Len(promises) : promises[i].status = "fulfilled"}
SomeLookupHasRows ==
    \E f \in FileNames \ {fileAnVILDataIngestion} : fs[f].exists /\ ContentRowsOf(f) # <<>>

\* C1: with no main export on disk, getIngestedWorkspaces never rejects, names
\* the file on the console when it reads it, starts no row transform and no
\* resolver call, hands the sort no records and resolves to no records,
\* whatever the three lookup exports are.
C1_AbsentMainExportResolvesEmpty ==
    ~fs[fileAnVILDataIngestion].exists =>
        /\ pc # "rejected"
        /\ promises = <<>> /\ settled = <<>>
        /\ MainExportRead =>
              \E n \in 1..Len(console) : console[n] = fileAnVILDataIngestion
        /\ pc \in {"sortDataByDuoTypes", "resolved"} => workspaces = <<>>
        /\ pc = "resolved" => sortCalls = 1 /\ result = <<>>

C1_Witness ==
    /\ ~fs[fileAnVILDataIngestion].exists
    /\ SomeLookupHasRows
    /\ pc = "resolved"
    /\ result = <<>>

\* C2: a record whose project id has no entry in the sample count lookup has
\* samples 0, and one whose project id has no entry in the file size lookup
\* has size 0, whatever the row itself held in that column.
C2_MissingLookupEntryIsZero ==
    \A i \in Fulfilled :
        LET record == promises[i].value
            projectId == Get(record, "projectId")
        IN  /\ projectId \notin DOMAIN sampleCountByProjectId => record["samples"] = Num(0)
            /\ projectId \notin DOMAIN fileSizeByProjectId => record["size"] = Num(0)

C2_Witness ==
    \E i \in Fulfilled :
        LET record == promises[i].value
            row == promises[i].locals.row
        IN  /\ Get(record, "projectId") \notin DOMAIN sampleCountByProjectId
            /\ row["samples"] = Num(7)
            /\ record["samples"] = Num(0)
            /\ ~fs[fileTerraDataIngestionFileSize].exists
            /\ record["size"] = Num(0)

\* The three lookups: the export each is built of, its value field, and the
\* map once built.
LookupNames == {"studyIdByProjectId", "sampleCountByProjectId", "fileSizeByProjectId"}
LookupFile(name) ==
    CASE name = "studyIdByProjectId" -> fileAnVILDataIngestionAccession
      [] name = "sampleCountByProjectId" -> fileTerraDataIngestionCounts
      [] name = "fileSizeByProjectId" -> fileTerraDataIngestionFileSize
LookupValueKey(name) ==
    CASE name = "studyIdByProjectId" -> "dbGapId"
      [] name = "sampleCountByProjectId" -> "samples"
      [] name = "fileSizeByProjectId" -> "size"
LookupMap(name) ==
    CASE name = "studyIdByProjectId" -> studyIdByProjectId
      [] name = "sampleCountByProjectId" -> sampleCountByProjectId
      [] name = "fileSizeByProjectId" -> fileSizeByProjectId
LookupBuilt(name) == \E n \in 1..Len(built) : built[n] = name

\* The fields of the rows of an export on disk, the header row first.
Table(fileName) ==
    LET lines == getFileContents(fs, fileName)
    IN  [n \in 1..Len(lines) |-> Split(lines[n], TAB)]

\* A valid two-column lookup export: a header row, and a key and a value in
\* every row.
ValidTable(table) == table # <<>> /\ \A n \in 1..Len(table) : Len(table[n]) = 2

\* The key of each content row of a valid lookup export, and its value,
\* corrected for type.
RowKeys(table) == [n \in 1..(Len(table) - 1) |-> Str(table[n + 1][1])]
RowValues(table, valueKey) ==
    [n \in 1..(Len(table) - 1) |-> buildIngestedDatum(Str(table[n + 1][2]), valueKey)]

LastRowOf(keys, key) ==
    CHOOSE n \in 1..Len(keys) :
        keys[n] = key /\ \A m \in 1..Len(keys) : keys[m] = key => m <= n

LaterRowsWin(map, keys, values) ==
    \A n \in 1..Len(keys) :
        keys[n] \in DOMAIN map /\ map[keys[n]] = values[LastRowOf(keys, keys[n])]

\* C3 as stated: a lookup built of a valid export has as many entries as the
\* export has content rows, and the value of the last row of each key.
C3_OneEntryPerRow ==
    \A name \in LookupNames :
        LET table == Table(LookupFile(name))
            keys == RowKeys(table)
        IN  LookupBuilt(name) /\ ValidTable(table) =>
                /\ Cardinality(DOMAIN LookupMap(name)) = Len(keys)
                /\ LaterRowsWin(LookupMap(name), keys, RowValues(table, LookupValueKey(name)))

\* C3 as amended: a lookup built of a valid export has one entry per distinct
\* key of the content rows (so one per row when no key repeats) and no other,
\* and the value under a key is the value, corrected for type, of the last
\* row of that key.
C3_OneEntryPerKey ==
    \A name \in LookupNames :
        LET table == Table(LookupFile(name))
            keys == RowKeys(table)
        IN  LookupBuilt(name) /\ ValidTable(table) =>
                /\ DOMAIN LookupMap(name) = {keys[n] : n \in 1..Len(keys)}
                /\ LaterRowsWin(LookupMap(name), keys, RowValues(table, LookupValueKey(name)))
                /\ (\A m, n \in 1..Len(keys) : keys[m] = keys[n] => m = n)
                      => Cardinality(DOMAIN LookupMap(name)) = Len(keys)

\* Two rows of one key in the sample count export, 5 first and -3 last, and
\* -3 under the key in the lookup.
C3_Witness ==
    LET table == Table(fileTerraDataIngestionCounts)
    IN  /\ LookupBuilt("sampleCountByProjectId")
        /\ ValidTable(table)
        /\ Len(table) = 3
        /\ RowKeys(table)[1] = RowKeys(table)[2]
        /\ RowValues(table, "samples") = <<Num(5), Num(0 - 3)>>
        /\ sampleCountByProjectId[RowKeys(table)[1]] = Num(0 - 3)

Public == Str(<<"P", "u", "b", "l", "i", "c">>)
Private == Str(<<"P", "r", "i", "v", "a", "t", "e">>)

\* The project id the transform of content row i read off the row.
RowProjectId(i) == Get(promises[i].locals.row, "projectId")

\* C4, of the allow-listed id: the transform of a content row whose project
\* id is on the public-access allow-list produces a record, never a
\* TypeError, and the record's access is "Public".
C4_AllowListedRowIsPublic ==
    \A i \in 1..Len(promises) :
        (RowProjectId(i).t = "str" /\ RowProjectId(i).s \in ALLOW_LIST_WORKSPACE_ACCESS_PUBLIC)
            => /\ promises[i].status # "threw"
               /\ i \in Fulfilled => promises[i].value["access"] = Public

\* The fields buildWorkspaceRow derives and assigns over the ingested row.
DerivedKeys == {"access", "consortium", "samples", "size", "dbGapIdAccession", "dbGapId"}

\* The workspace key of each column of a header row, and of column j.
ColumnKeys(headers) == [j \in 1..Len(headers) |-> HEADERS_TO_WORKSPACE_KEY(Str(headers[j]))]
KeyAt(keys, j) == IF j <= Len(keys) THEN keys[j] ELSE NoKey

\* C5 as stated: in the record of every content row, the field of every
\* column whose header has a workspace key is the column's text, corrected
\* for type.
C5_EveryColumnReadsBack ==
    LET table == Table(fileAnVILDataIngestion)
        keys == ColumnKeys(table[1])
    IN  \A i \in Fulfilled :
            \A j \in 1..Len(table[i + 1]) :
                KeyAt(keys, j) # NoKey =>
                    promises[i].value[KeyAt(keys, j)]
                        = buildIngestedDatum(Str(table[i + 1][j]), KeyAt(keys, j))

\* C5 as amended: the same of every column whose workspace key is none of
\* the six derived fields and that is the last column of the row with that
\* key; the six derived fields hold the derived values, whatever the row held.
C5_UnderivedColumnsReadBack ==
    LET table == Table(fileAnVILDataIngestion)
        keys == ColumnKeys(table[1])
    IN  \A i \in Fulfilled :
            LET fields == table[i + 1]
                record == promises[i].value
            IN  /\ \A j \in 1..Len(fields) :
                      (/\ KeyAt(keys, j) \notin DerivedKeys \cup {NoKey}
                       /\ \A k \in (j + 1)..Len(fields) : KeyAt(keys, k) # KeyAt(keys, j))
                          => record[KeyAt(keys, j)]
                                = buildIngestedDatum(Str(fields[j]), KeyAt(keys, j))
                /\ record["access"] \in {Public, Private}
                /\ record["samples"]
                      = JsOr(MapGet(sampleCountByProjectId, Get(record, "projectId")), Num(0))
                /\ record["size"]
                      = JsOr(MapGet(fileSizeByProjectId, Get(record, "projectId")), Num(0))
                /\ record["dbGapId"] = MapGet(studyIdByProjectId, Get(record, "projectId"))
                /\ record["dbGapIdAccession"] = promises[i].studyAccession

\* A record whose subjects read back as the number of the row's text "1,2",
\* beside a sample count that is the lookup's, not the row's.
C5_Witness ==
    LET table == Table(fileAnVILDataIngestion)
    IN  \E i \in Fulfilled :
            /\ ColumnKeys(table[1]) = <<"projectId", "subjects", "samples">>
            /\ Len(table[i + 1]) = 3
            /\ table[i + 1][2] = <<"1", ",", "2">>
            /\ promises[i].value["subjects"] = Num(12)
            /\ promises[i].locals.row["samples"] = NaN
            /\ promises[i].value["samples"] = Num(0 - 3)

NonEmptyText(v) == v.t = "str" /\ v.s # <<>>

\* C6: every record getIngestedWorkspaces resolves to, and every record of a
\* row transform, has a project id that is a non-empty text: the transform of
\* a row with an empty or no project id throws, and the call rejects.
C6_ProjectIdNonEmpty ==
    /\ \A i \in Fulfilled : NonEmptyText(promises[i].value["projectId"])
    /\ \A n \in 1..Len(workspaces) : NonEmptyText(workspaces[n]["projectId"])
    /\ \A n \in 1..Len(result) : NonEmptyText(result[n]["projectId"])
    /\ \A i \in 1..Len(promises) : ~NonEmptyText(RowProjectId(i)) => promises[i].status = "threw"

C6_Witness ==
    /\ pc = "resolved"
    /\ Len(result) = MaxRows
    /\ result[1]["projectId"] # result[2]["projectId"]

Negative(v) == v.t = "num" /\ v.n < 0

\* C7: in every record getIngestedWorkspaces resolves to, samples, size and
\* subjects are never negative.
C7_NumbersNeverNegative ==
    pc = "resolved" =>
        \A n \in 1..Len(result) :
            \A key \in {"samples", "size", "subjects"} : ~Negative(result[n][key])

AllLookups == <<"studyIdByProjectId", "sampleCountByProjectId", "fileSizeByProjectId">>

\* C8: the lookups are built study ids first, sample counts next and file
\* sizes last, all three before the main export is read and any row transform
\* starts; the sort is called at most once, and only when the transform of
\* every content row has run to its end.
C8_LookupsThenRowsThenSort ==
    /\ built = SubSeq(AllLookups, 1, Len(built))
    /\ (MainExportRead \/ promises # <<>> \/ settled # <<>>) => built = AllLookups
    /\ MainExportRead => Len(promises) = Len(ContentRowsOf(fileAnVILDataIngestion))
    /\ sortCalls <= 1
    /\ pc = "sortDataByDuoTypes" \/ sortCalls = 1 =>
          /\ MainExportRead
          /\ \A i \in 1..Len(promises) : promises[i].status = "fulfilled"

C8_Witness ==
    /\ sortCalls = 1
    /\ Len(promises) = MaxRows
    /\ Len(settled) = MaxRows

Done == pc \in {"resolved", "rejected"}
NeverCompleting == {i \in 1..Len(promises) : promises[i].status = "hung"}

\* C9 as stated, its second half: while a resolver call is one that never
\* completes, the call of getIngestedWorkspaces has not completed.
C9_PendingWhileACallNeverCompletes == NeverCompleting # {} => ~Done

\* C9 as amended: when every resolver call completes, getIngestedWorkspaces
\* completes; a resolver call that never completes keeps the sort from ever
\* being called and getIngestedWorkspaces from ever resolving, and leaves it
\* pending unless the transform of another row throws or its resolver call
\* rejects, which rejects getIngestedWorkspaces.
C9_CompletesUnlessACallNeverCompletes ==
    /\ <>(Done \/ NeverCompleting # {})
    /\ [](NeverCompleting # {} =>
            /\ sortCalls = 0
            /\ pc \in {"buildWorkspaces", "rejected"}
            /\ pc = "rejected" => \E j \in 1..Len(promises) : Rejected(promises[j]))

C9_Witness ==
    /\ NeverCompleting # {}
    /\ pc = "buildWorkspaces"
    /\ \A i \in 1..Len(promises) : promises[i].status \in {"hung", "fulfilled"}
    /\ Fulfilled # {}

\* C10: whatever order the resolver calls complete in, the records handed to
\* the sort are the transforms of the content rows of the main export, in the
\* order of the rows, each of its own row, its own resolver result and the
\* three lookups as they were built of the exports.
C10_RecordsInRowOrder ==
    pc \in {"sortDataByDuoTypes", "resolved"} =>
        LET rows == ContentRowsOf(fileAnVILDataIngestion)
            headers == HeadersOf(fileAnVILDataIngestion)
            studyIds == buildKeyValuePair(getFileContents(fs, fileAnVILDataIngestionAccession),
                                          HeadersOf(fileAnVILDataIngestionAccession),
                                          "PROJECT_ID", "DB_GAP_ID")
            sampleCounts == buildKeyValuePair(getFileContents(fs, fileTerraDataIngestionCounts),
                                              HeadersOf(fileTerraDataIngestionCounts),
                                              "WORKSPACE", "SAMPLES")
            fileSizes == buildKeyValuePair(getFileContents(fs, fileTerraDataIngestionFileSize),
                                           HeadersOf(fileTerraDataIngestionFileSize),
                                           "WORKSPACE", "SIZE")
        IN  /\ studyIdByProjectId = studyIds
            /\ sampleCountByProjectId = sampleCounts
            /\ fileSizeByProjectId = fileSizes
            /\ Len(workspaces) = Len(rows)
            /\ \A i \in 1..Len(rows) :
                  workspaces[i] =
                      buildWorkspaceRowEnd(
                          buildWorkspaceRowStart(rows[i], headers, sampleCounts, studyIds,
                                                 fileSizes),
                          promises[i].studyAccession)

C10_Witness ==
    /\ pc = "sortDataByDuoTypes"
    /\ settled = <<2, 1>>
    /\ workspaces[1]["projectId"] # workspaces[2]["projectId"]
    /\ workspaces[1]["dbGapIdAccession"] # workspaces[2]["dbGapIdAccession"]

====
